---- MODULE Spec2Model ----
\* Celestia: main-thread state (main.js), the propagation worker
\* (propagation_worker.js) and the two message channels between them.
\*
\* Abstractions
\*  - A THREE.Vector3 is one integer: every vector operation the program
\*    performs on positions (copy, add, sub, negate, multiplyScalar) is
\*    component-wise, so one component stands for the three.
\*  - currentTime is a tick number; one tick is one 10-minute step.
\*  - The Kepler ephemeris and SGP4 are deterministic functions of
\*    (body or record, time); they are tabulated on an integer grid.
\*  - main.js uses `sun` as a mesh (sun.position, sun.geometry); it is
\*    modelled that way.
EXTENDS Integers, Sequences, FiniteSets, TLC

\* ---------------------------------------------------------------- bounds
\* Buffer capacity and worker batch size, scaled down from 20000 and 500:
\* a batch of MAX_SATELLITES records still takes two chunks, the last one
\* short.
MAX_SATELLITES == 3
BATCH_SIZE == 2
\* Largest number of TLE entries the fetched text can hold.
MaxParsed == MAX_SATELLITES + 1
\* Simulation ticks are 0..MaxTime.
MaxTime == 2
\* Requests waiting in the worker's inbox.
MaxWorkerQueue == 2
\* Replies waiting in the main inbox: the chunks of two batches.
MaxMainQueue == 2 * BATCH_SIZE
\* User and timer events handled in one run.
MaxEvents == 2
\* Number of trajectory samples requested (100 in the program).
TrajPoints == 1

\* ------------------------------------------------------------- constants
AU == 149597870
EARTH_RADIUS_KM == 6371

Times == 0..MaxTime
Slots == 0..(MAX_SATELLITES - 1)
Planets == {"mercury", "venus", "earth", "mars", "jupiter", "saturn",
            "uranus", "neptune", "pluto"}
\* keys of targetObjects
targetObjects == Planets \cup {"sun", "moon"}

Undefined == -2
Max(a, b) == IF a > b THEN a ELSE b
Min(a, b) == IF a < b THEN a ELSE b

\* --------------------------------------------------------------- orbits
\* a: semi-major axis, M0: mean anomaly at epoch, n: mean motion per tick.
orbitalElements ==
  [mercury |-> [a |-> 1,  M0 |-> 1, n |-> 3],
   venus   |-> [a |-> 1,  M0 |-> 2, n |-> 2],
   earth   |-> [a |-> 1,  M0 |-> 0, n |-> 1],
   mars    |-> [a |-> 2,  M0 |-> 3, n |-> 1],
   jupiter |-> [a |-> 5,  M0 |-> 1, n |-> 1],
   saturn  |-> [a |-> 10, M0 |-> 2, n |-> 1],
   uranus  |-> [a |-> 19, M0 |-> 0, n |-> 1],
   neptune |-> [a |-> 30, M0 |-> 3, n |-> 1],
   pluto   |-> [a |-> 39, M0 |-> 1, n |-> 1]]

\* One revolution sampled at four mean anomalies.
OrbitWave == <<2, 1, -2, -1>>

\* Position in AU; an unknown name yields the zero vector.
getPlanetPosition(planetName, date) ==
  IF planetName \notin DOMAIN orbitalElements
  THEN 0
  ELSE LET el == orbitalElements[planetName]
           M  == (el.M0 + el.n * date) % 4
       IN el.a * OrbitWave[M + 1]

\* Geocentric position of the Moon in AU.
getMoonPosition(date) == OrbitWave[((3 * date) % 4) + 1]

scaleFactor == AU \div EARTH_RADIUS_KM

\* ------------------------------------------------------- Kepler's equation
\* solveKepler and the distance formula work on doubles; here a number is an
\* integer count of thousandths, and the solver's tolerance is one
\* thousandth.
One == 1000
Pi == 3142
TwoPi == 2 * Pi
tolerance == 1
maxIterations == 100

Abs(x) == IF x < 0 THEN 0 - x ELSE x

\* Math.sin: the argument is reduced to [-Pi, Pi), then the Taylor
\* polynomial up to the term of degree 15.
sin(x) ==
  LET t  == ((x + Pi) % TwoPi) - Pi
      x2 == (t * t) \div One
      t3  == ((t * x2) \div One) \div 6
      t5  == ((t3 * x2) \div One) \div 20
      t7  == ((t5 * x2) \div One) \div 42
      t9  == ((t7 * x2) \div One) \div 72
      t11 == ((t9 * x2) \div One) \div 110
      t13 == ((t11 * x2) \div One) \div 156
      t15 == ((t13 * x2) \div One) \div 210
  IN t - t3 + t5 - t7 + t9 - t11 + t13 - t15

\* Math.cos
cos(x) == sin(x + Pi \div 2)

\* E - e * sin(E) - M
KeplerResidual(E, e, M) == E - (e * sin(E)) \div One - M

\* One Newton step: delta = (E - e sin E - M) / (1 - e cos E).
NewtonDelta(E, e, M) ==
  LET num == KeplerResidual(E, e, M)
      den == One - (e * cos(E)) \div One
  IN (num \div den) * One + ((num % den) * One) \div den

\* Variant: the loop stops on the tolerance only.
LoopCondition_NoCap(delta, i) == Abs(delta) > tolerance

\* The condition of solveKepler's while loop.
LoopCondition(delta, i) == Abs(delta) > tolerance /\ i < maxIterations

\* Variant: the eccentricity is left out of the distance.
HeliocentricDistance_NoEccentricity(a, e, E) == (a * (One - cos(E))) \div One

\* r = a * (1 - e * cos(E)) of getPlanetPosition.
HeliocentricDistance(a, e, E) == (a * (One - (e * cos(E)) \div One)) \div One

\* Inputs of the solver: eccentricities from 0 to 0.98, mean anomalies
\* over (-2 pi, 2 pi) as getPlanetPosition's remainder yields them, and
\* the semi-major axes of the Earth and Jupiter.
Eccentricities == {0, 500, 900, 980}
MeanAnomalies == {-1000, 0, 149, 1000, 2000, 3142, 4000, 5000, 6019, 6283}
SemiMajorAxes == {1000, 5203}

\* Variant: the sum is not reduced.
Remainder_None(x, m) == x

\* JavaScript's %: the remainder has the sign of the dividend.
Remainder(x, m) == IF x >= 0 THEN x % m ELSE 0 - ((0 - x) % m)

\* M = (M0 + n * secondsSinceJ2000) % (2 * Math.PI)
MeanAnomaly(M0, n, dt) == Remainder(M0 + n * dt, TwoPi)

\* solveKepler from the state (E, delta, i) of its loop to its return value.
RECURSIVE solveKeplerFrom(_, _, _, _, _)
solveKeplerFrom(E, delta, i, M, e) ==
  IF LoopCondition(delta, i)
  THEN LET d == NewtonDelta(E, e, M)
       IN solveKeplerFrom(E - d, d, i + 1, M, e)
  ELSE E

solveKepler(M, e) == solveKeplerFrom(M, One, 0, M, e)

\* Math.sqrt on thousandths: the largest s with s * s <= x * One.
sqrt(x) == CHOOSE s \in 0..(2 * One) : s * s <= x * One /\ (s + 1) * (s + 1) > x * One

\* x_orb = r cos(nu) and y_orb = r sin(nu) for the E that solveKepler
\* returns at the mean anomaly M. With nu = 2 atan2(sqrt(1 + e) sin(E / 2),
\* sqrt(1 - e) cos(E / 2)) these are a (cos E - e) and
\* a sqrt(1 - e^2) sin E; the rotation to ecliptic coordinates that follows
\* is the same for every time.
OrbitalPlanePosition(a, e, M) ==
  LET E == solveKepler(M, e)
  IN <<(a * (cos(E) - e)) \div One,
       (((a * sqrt(One - (e * e) \div One)) \div One) * sin(E)) \div One>>

\* Bodies and times of the periodicity check: mean anomalies at epoch on
\* both sides of 0, mean motions of a quarter and a half turn per tick,
\* times before and after the epoch.
OrbitEccentricities == {0, 17, 206, 249}
OrbitEpochAnomalies == {-1745, 0, 1000}
MeanMotions == {TwoPi \div 4, TwoPi \div 2}
OrbitTimes == -4..4

\* No call of solveKepler is being followed.
KeplerIdle ==
  [pc |-> "idle", a |-> 0, e |-> 0, M |-> 0, E |-> 0, delta |-> 0, i |-> 0]

\* ------------------------------------------------------------------ state
VARIABLES
  currentTime,          \* simulation time
  isRealTime,
  sameDate,             \* lastUpdateTime is the same Date object as currentTime
  sceneOffset,
  bodyPos,              \* display position of every body mesh
  cameraTargetObject,
  tleData,              \* number of loaded records (records are immutable)
  loaded,               \* initTLEs has finished
  buf,                  \* satellites.instanceMatrix, one position per slot
  satellitesCount,      \* satellites.count
  satelliteCount,
  highlightedIndex,
  highlightedSatellite, \* <<>> (null) or <<position>>
  selectedIndex,
  selectedSatellite,
  currentTrajectory,    \* <<>> (null) or <<line>>
  selectedTrajectory,
  sceneLines,           \* Line objects in the scene, per slot
  workerInbox,          \* main -> worker
  mainInbox,            \* worker -> main
  reads,                \* slots read by the last handler, with the count then
  events,               \* user and timer events handled so far
  overlap,              \* latest batch requested while one was outstanding
  hist,                 \* injected chunks handled back to back, each with
                        \* the buffer, counts and markers it met
  kepler,               \* the call of solveKepler being followed
  written               \* slots an accepted chunk has written

vars == <<currentTime, isRealTime, sameDate, sceneOffset, bodyPos,
          cameraTargetObject, tleData, loaded, buf, satellitesCount,
          satelliteCount, highlightedIndex, highlightedSatellite,
          selectedIndex, selectedSatellite, currentTrajectory,
          selectedTrajectory, sceneLines, workerInbox, mainInbox, reads,
          events, overlap, hist, kepler, written>>

\* --------------------------------------------------- propagation worker
\* Outcome of SGP4 for record i: record 1 never yields a position, the
\* element lines of record 2 make twoline2satrec throw.
TleKind(i) == IF i = 1 THEN "nopos" ELSE IF i = 2 THEN "throws" ELSE "ok"

\* satellite.propagate(satrec, date).position, in scene units.
sgp4(i, date) == 10 * (i + 1) + date

calculateSatellitePosition(i, date) ==
  IF TleKind(i) = "ok" THEN sgp4(i, date) ELSE 0

PositionsUpdate(start, cnt, positions) ==
  [type |-> "POSITIONS_UPDATE", startIndex |-> start, count |-> cnt,
   batchPositions |-> positions, satelliteIndex |-> Undefined,
   trajectoryPoints |-> <<>>]

TrajectoryData(index, points) ==
  [type |-> "TRAJECTORY_DATA", startIndex |-> Undefined, count |-> Undefined,
   batchPositions |-> <<>>, satelliteIndex |-> index,
   trajectoryPoints |-> points]

\* Variant: every chunk is BATCH_SIZE long.
BatchChunk_Full(i, n, date) ==
  LET batchPositions ==
        [j \in 1..BATCH_SIZE |-> calculateSatellitePosition(i + j - 1, date)]
  IN PositionsUpdate(i, Len(batchPositions), batchPositions)

\* Variant: the chunk ends before the first record that fails.
BatchChunk_StopsAtFailure(i, n, date) ==
  LET batchSize == Min(BATCH_SIZE, n - i)
      done == {j \in 1..batchSize :
                 \A m \in 1..j : TleKind(i + m - 1) = "ok"}
      batchPositions ==
        [j \in 1..Cardinality(done) |->
           calculateSatellitePosition(i + j - 1, date)]
  IN PositionsUpdate(i, Len(batchPositions), batchPositions)

\* The chunk the worker posts for the records [i, i + BATCH_SIZE) of n.
BatchChunk(i, n, date) ==
  LET batchSize == Min(BATCH_SIZE, n - i)
      batchPositions ==
        [j \in 1..batchSize |-> calculateSatellitePosition(i + j - 1, date)]
  IN PositionsUpdate(i, Len(batchPositions), batchPositions)

RECURSIVE calculatePositionsFrom(_, _, _)
calculatePositionsFrom(i, n, date) ==
  IF i < n
  THEN <<BatchChunk(i, n, date)>> \o calculatePositionsFrom(i + BATCH_SIZE, n, date)
  ELSE <<>>

\* Variant: the chunks of a batch are posted from the last to the first.
calculatePositions_Descending(n, date) ==
  LET chunks == calculatePositionsFrom(0, n, date)
  IN [k \in 1..Len(chunks) |-> chunks[Len(chunks) + 1 - k]]

\* All replies to one CALCULATE_POSITIONS request, in posting order.
calculatePositions(n, date) == calculatePositionsFrom(0, n, date)

\* Variant: the reply sent from the catch block keeps the request's index
\* and the points sampled so far.
calculateTrajectory_Partial(index, date, points) ==
  IF TleKind(index) = "nopos"
  THEN TrajectoryData(index, <<>>)
  ELSE TrajectoryData(index, [k \in 1..(points + 1) |-> sgp4(index, date) + (k - 1)])

\* Samples i = 0..points of the orbit of record index, starting at date.
calculateTrajectory(index, date, points) ==
  IF TleKind(index) = "throws"
  THEN TrajectoryData(Undefined, <<>>)
  ELSE IF TleKind(index) = "nopos"
  THEN TrajectoryData(index, <<>>)
  ELSE TrajectoryData(index, [k \in 1..(points + 1) |-> sgp4(index, date) + (k - 1)])

\* ----------------------------------------------------------- main thread
\* Display positions set by updatePositions. multiplyScalar works in place:
\* earthPosAU already holds the scaled vector when the Moon's heliocentric
\* position is formed from it.
BodyPositions(date, offset) ==
  LET earthAbsPos      == getPlanetPosition("earth", date) * scaleFactor
      earthPosAU       == earthAbsPos
      moonPosAU        == getMoonPosition(date)
      moonHelioAU      == earthPosAU + moonPosAU
      moonAbsPosScaled == moonHelioAU * scaleFactor
  IN [b \in targetObjects |->
        IF b = "sun" THEN 0 + offset
        ELSE IF b = "moon" THEN moonAbsPosScaled + offset
        ELSE IF b = "earth" THEN earthAbsPos + offset
        ELSE getPlanetPosition(b, date) * scaleFactor + offset]

\* Absolute position of the new target, as setCameraTarget computes it.
TargetAbsolutePosition(targetName, date) ==
  IF targetName = "sun" THEN 0
  ELSE IF targetName = "moon"
  THEN (getPlanetPosition("earth", date) + getMoonPosition(date)) * scaleFactor
  ELSE getPlanetPosition(targetName, date) * scaleFactor

\* Variant: the request carries the time the handler started with.
PositionsRequest_Stale(n, date) ==
  IF n > 0
  THEN <<[type |-> "CALCULATE_POSITIONS", n |-> n, time |-> currentTime,
          satelliteIndex |-> Undefined, points |-> Undefined]>>
  ELSE <<>>

\* Variant: the request carries the first BATCH_SIZE records only.
PositionsRequest_FirstBatch(n, date) ==
  IF n > 0
  THEN <<[type |-> "CALCULATE_POSITIONS", n |-> Min(n, BATCH_SIZE),
          time |-> date, satelliteIndex |-> Undefined, points |-> Undefined]>>
  ELSE <<>>

PositionsRequest(n, date) ==
  IF n > 0
  THEN <<[type |-> "CALCULATE_POSITIONS", n |-> n, time |-> date,
          satelliteIndex |-> Undefined, points |-> Undefined]>>
  ELSE <<>>

\* Variant: no request is posted while another trajectory request waits at
\* the worker.
TrajectoryRequest_Debounced(satelliteIndex, n, date) ==
  IF /\ satelliteIndex >= 0 /\ satelliteIndex < n
     /\ \A k \in 1..Len(workerInbox) : workerInbox[k].type # "CALCULATE_TRAJECTORY"
  THEN <<[type |-> "CALCULATE_TRAJECTORY", n |-> Undefined, time |-> date,
          satelliteIndex |-> satelliteIndex, points |-> TrajPoints]>>
  ELSE <<>>

\* requestTrajectory: posts only when tleData[satelliteIndex] exists.
TrajectoryRequest(satelliteIndex, n, date) ==
  IF satelliteIndex >= 0 /\ satelliteIndex < n
  THEN <<[type |-> "CALCULATE_TRAJECTORY", n |-> Undefined, time |-> date,
          satelliteIndex |-> satelliteIndex, points |-> TrajPoints]>>
  ELSE <<>>

\* POSITIONS_UPDATE: the capacity check, the slot writes, the new count.
\* Variant: only the first slot of the chunk is checked.
ChunkFits_Start(msg) == ~(msg.startIndex > MAX_SATELLITES)

\* Variant: no capacity check.
ChunkFits_Always(msg) == TRUE

ChunkFits(msg) == ~(msg.startIndex + msg.count > MAX_SATELLITES)

\* Variant: the position is added to what the slot holds.
WriteChunk_Accumulate(b, msg, earthPos) ==
  [i \in Slots |->
     IF i >= msg.startIndex /\ i < msg.startIndex + msg.count
     THEN b[i] + msg.batchPositions[i - msg.startIndex + 1] + earthPos
     ELSE b[i]]

\* Variant: the chunk is written from slot 0, not from its startIndex.
WriteChunk_Relative(b, msg, earthPos) ==
  [i \in Slots |->
     IF i < msg.count THEN msg.batchPositions[i + 1] + earthPos ELSE b[i]]

\* Variant: the position is moved by the display position of the focus body.
WriteChunk_Focus(b, msg, earthPos) ==
  [i \in Slots |->
     IF i >= msg.startIndex /\ i < msg.startIndex + msg.count
     THEN msg.batchPositions[i - msg.startIndex + 1] + bodyPos[cameraTargetObject]
     ELSE b[i]]

WriteChunk(b, msg, earthPos) ==
  [i \in Slots |->
     IF i >= msg.startIndex /\ i < msg.startIndex + msg.count
     THEN msg.batchPositions[i - msg.startIndex + 1] + earthPos
     ELSE b[i]]

\* Variant: chunks are assumed to arrive in ascending order.
NewTotalCount_InOrder(cnt, msg) == msg.startIndex + msg.count

\* Variant: a running total of the slots received.
NewTotalCount_Running(cnt, msg) == cnt + msg.count

NewTotalCount(cnt, msg) ==
  IF msg.startIndex + msg.count > cnt THEN msg.startIndex + msg.count ELSE cnt

\* Marker refresh at the end of POSITIONS_UPDATE: an existing marker is
\* moved to the slot of its index, whatever the count is.
RefreshedMarker(marker, index, b) ==
  IF index # -1 /\ marker # <<>> THEN <<b[index]>> ELSE marker

RefreshReads(marker, index, cnt) ==
  IF index # -1 /\ marker # <<>> THEN {<<index, cnt>>} ELSE {}

\* highlightSatellite and selectSatellite read the slot of their index with
\* getMatrixAt before updateMarkerPosition repeats the read under its guard.
MarkerReads(index, cnt) == {<<index, cnt>>}

NoLines == [highlighted |-> 0, selected |-> 0]

\* The state once the module has run and the first animation frame has
\* called update(): no TLE loaded yet, focus on the Sun, offset zero.
MainInit ==
  /\ currentTime \in Times
  /\ isRealTime = FALSE
  /\ sameDate = TRUE
  /\ sceneOffset = 0
  /\ bodyPos = BodyPositions(currentTime, 0)
  /\ cameraTargetObject = "sun"
  /\ tleData = 0
  /\ loaded = FALSE
  /\ buf = [i \in Slots |-> 0]
  /\ satellitesCount = 0
  /\ satelliteCount = 0
  /\ highlightedIndex = -1
  /\ highlightedSatellite = <<>>
  /\ selectedIndex = -1
  /\ selectedSatellite = <<>>
  /\ currentTrajectory = <<>>
  /\ selectedTrajectory = <<>>
  /\ sceneLines = NoLines
  /\ workerInbox = <<>>
  /\ mainInbox = <<>>
  /\ reads = {}
  /\ events = 0
  /\ overlap = FALSE
  /\ hist = <<>>
  /\ written = {}

Init == MainInit /\ kepler = KeplerIdle

\* Variable groups left alone by the handlers.
timeVars      == <<currentTime, isRealTime, sameDate>>
bufVars       == <<buf, satellitesCount, satelliteCount, written>>
highlightVars == <<highlightedIndex, highlightedSatellite, currentTrajectory>>
selectVars    == <<selectedIndex, selectedSatellite, selectedTrajectory>>
focusVars     == <<sceneOffset, cameraTargetObject>>

\* One more user or timer event is handled.
Event == events < MaxEvents /\ events' = events + 1

\* A user or timer event of the program.
Handler == Event /\ hist' = <<>>

\* A CALCULATE_POSITIONS request or a POSITIONS_UPDATE reply is on its way.
OutstandingPositions ==
  \/ \E k \in 1..Len(workerInbox) : workerInbox[k].type = "CALCULATE_POSITIONS"
  \/ \E k \in 1..Len(mainInbox) : mainInbox[k].type = "POSITIONS_UPDATE"

\* updatePositions: move every body, then ask the worker for all positions.
updatePositions(date, offset, n, inbox) ==
  /\ bodyPos' = BodyPositions(date, offset)
  /\ workerInbox' = inbox \o PositionsRequest(n, date)
  /\ Len(workerInbox') <= MaxWorkerQueue
  /\ overlap' = IF PositionsRequest(n, date) # <<>>
                THEN OutstandingPositions ELSE overlap

\* Variant: the parsed list is kept whole.
TruncatedLength_All(parsed) == parsed

\* Length of tleData after the slice(0, MAX_SATELLITES) of initTLEs.
TruncatedLength(parsed) ==
  IF parsed > MAX_SATELLITES THEN MAX_SATELLITES ELSE parsed

\* initTLEs, once the fetch has resolved with `parsed` entries.
InitTLEs(parsed) ==
  /\ ~loaded
  /\ hist' = <<>>
  /\ loaded' = TRUE
  /\ tleData' = TruncatedLength(parsed)
  /\ updatePositions(currentTime, sceneOffset, tleData', workerInbox)
  /\ reads' = {}
  /\ UNCHANGED <<timeVars, bufVars, highlightVars, selectVars, focusVars,
                 sceneLines, mainInbox, events, kepler>>

\* Variant: the step re-derives sceneOffset for the new time, so that the
\* focus body stays at the origin.
StepTime_Recentered(direction) ==
  /\ Handler
  /\ currentTime + direction \in Times
  /\ isRealTime' = FALSE
  /\ currentTime' = currentTime + direction
  /\ sameDate' = FALSE
  /\ sceneOffset' = 0 - TargetAbsolutePosition(cameraTargetObject, currentTime')
  /\ updatePositions(currentTime', sceneOffset', tleData, workerInbox)
  /\ reads' = {}
  /\ UNCHANGED <<bufVars, highlightVars, selectVars, cameraTargetObject,
                 sceneLines, mainInbox, tleData, loaded, kepler>>

\* forward / backward click
StepTime(direction) ==
  /\ Handler
  /\ currentTime + direction \in Times
  /\ isRealTime' = FALSE
  /\ currentTime' = currentTime + direction
  /\ sameDate' = FALSE
  /\ updatePositions(currentTime', sceneOffset, tleData, workerInbox)
  /\ reads' = {}
  /\ UNCHANGED <<bufVars, highlightVars, selectVars, focusVars, sceneLines,
                 mainInbox, tleData, loaded, kepler>>

\* play click; `now` is the wall clock
PlayClick(now) ==
  /\ Handler
  /\ isRealTime' = ~isRealTime
  /\ IF isRealTime'
     THEN /\ currentTime' = now
          /\ sameDate' = FALSE
          /\ updatePositions(now, sceneOffset, tleData, workerInbox)
     ELSE UNCHANGED <<currentTime, sameDate, bodyPos, workerInbox, overlap>>
  /\ reads' = {}
  /\ UNCHANGED <<bufVars, highlightVars, selectVars, focusVars, sceneLines,
                 mainInbox, tleData, loaded, kepler>>

\* update(), real-time branch: the interval has elapsed and records exist.
UpdateRealTime(now) ==
  /\ Handler
  /\ isRealTime
  /\ tleData > 0
  /\ currentTime' = now
  /\ sameDate' = TRUE
  /\ updatePositions(now, sceneOffset, tleData, workerInbox)
  /\ reads' = {}
  /\ UNCHANGED <<isRealTime, bufVars, highlightVars, selectVars, focusVars,
                 sceneLines, mainInbox, tleData, loaded, kepler>>

\* update(), paused branch: currentTime is not the Date object last seen.
UpdatePaused ==
  /\ Handler
  /\ ~isRealTime
  /\ ~sameDate
  /\ sameDate' = TRUE
  /\ updatePositions(currentTime, sceneOffset, tleData, workerInbox)
  /\ reads' = {}
  /\ UNCHANGED <<currentTime, isRealTime, bufVars, highlightVars, selectVars,
                 focusVars, sceneLines, mainInbox, tleData, loaded, kepler>>

\* ------------------------------------------------- hover and selection
\* resetHighlight (with clearTrajectory): acts only when a marker exists.
ResetHighlightedIndex == IF highlightedSatellite # <<>> THEN -1 ELSE highlightedIndex
\* Variant: resetHighlight leaves the hover trajectory in place.
ResetCurrentTrajectory_Kept == currentTrajectory

ResetCurrentTrajectory ==
  IF highlightedSatellite # <<>> THEN <<>> ELSE currentTrajectory
ResetHighlightedLines ==
  IF highlightedSatellite # <<>> /\ currentTrajectory # <<>>
  THEN sceneLines.highlighted - 1 ELSE sceneLines.highlighted

\* Variant: clearSelection leaves selectedIndex as it is.
ClearedSelectedIndex_Kept == selectedIndex

\* clearSelection (with clearSelectedTrajectory): acts only when a marker exists.
ClearedSelectedIndex == IF selectedSatellite # <<>> THEN -1 ELSE selectedIndex
ClearedSelectedTrajectory ==
  IF selectedSatellite # <<>> THEN <<>> ELSE selectedTrajectory
ClearedSelectedLines ==
  IF selectedSatellite # <<>> /\ selectedTrajectory # <<>>
  THEN sceneLines.selected - 1 ELSE sceneLines.selected

\* Variant: the hover request is posted for the selected satellite too.
HoverRequest_Always(hit) == TrajectoryRequest(hit, tleData, currentTime)

\* onMouseMove: the hover trajectory is requested unless the satellite is the
\* selected one.
HoverRequest(hit) ==
  IF hit # selectedIndex
  THEN TrajectoryRequest(hit, tleData, currentTime)
  ELSE <<>>

\* mousemove; hit is the instanceId the ray meets first, -1 for none or Earth.
OnMouseMove(hit) ==
  /\ Handler
  /\ hit = -1 \/ (hit >= 0 /\ hit < satellitesCount)
  /\ IF hit # -1 /\ hit # highlightedIndex
     THEN \* resetHighlight(); highlightSatellite(hit); requestTrajectory(hit)
          /\ highlightedIndex' = hit
          /\ highlightedSatellite' = <<buf[hit]>>
          /\ currentTrajectory' = ResetCurrentTrajectory
          /\ sceneLines' = [sceneLines EXCEPT !.highlighted = ResetHighlightedLines]
          /\ reads' = MarkerReads(hit, satelliteCount)
          /\ workerInbox' = workerInbox \o HoverRequest(hit)
          /\ Len(workerInbox') <= MaxWorkerQueue
     ELSE IF hit = -1
     THEN \* resetHighlight()
          /\ highlightedIndex' = ResetHighlightedIndex
          /\ highlightedSatellite' = <<>>
          /\ currentTrajectory' = ResetCurrentTrajectory
          /\ sceneLines' = [sceneLines EXCEPT !.highlighted = ResetHighlightedLines]
          /\ reads' = {}
          /\ UNCHANGED workerInbox
     ELSE /\ reads' = {}
          /\ UNCHANGED <<highlightVars, sceneLines, workerInbox>>
  /\ UNCHANGED <<timeVars, bufVars, selectVars, focusVars, bodyPos, mainInbox,
                 tleData, loaded, kepler, overlap>>

\* selectSatellite(index) after clearSelection(): marker at the slot of index,
\* one trajectory request.
SelectSatellite(index, extraRequests) ==
  /\ selectedIndex' = index
  /\ selectedSatellite' = <<buf[index]>>
  /\ selectedTrajectory' = ClearedSelectedTrajectory
  /\ sceneLines' = [sceneLines EXCEPT !.selected = ClearedSelectedLines]
  /\ reads' = MarkerReads(index, satelliteCount)
  /\ workerInbox' = workerInbox \o TrajectoryRequest(index, tleData, currentTime)
                                \o extraRequests
  /\ Len(workerInbox') <= MaxWorkerQueue

\* mousedown
OnMouseDown ==
  /\ Handler
  /\ highlightedIndex # -1
  /\ highlightedIndex # selectedIndex
  /\ SelectSatellite(highlightedIndex, <<>>)
  /\ UNCHANGED <<timeVars, bufVars, highlightVars, focusVars, bodyPos,
                 mainInbox, tleData, loaded, kepler, overlap>>

\* search button, searchSatellite found a record: select it and request its
\* trajectory once more.
SearchFound(foundIndex) ==
  /\ Handler
  /\ foundIndex >= 0 /\ foundIndex < tleData
  /\ SelectSatellite(foundIndex,
                     TrajectoryRequest(foundIndex, tleData, currentTime))
  /\ UNCHANGED <<timeVars, bufVars, highlightVars, focusVars, bodyPos,
                 mainInbox, tleData, loaded, kepler, overlap>>

\* search button, nothing found (-1) or no search done (undefined): the
\* handler throws before it changes anything (tleData[undefined].OBJECT_NAME,
\* the undeclared searchTerm).
SearchNotFound ==
  /\ Handler
  /\ reads' = {}
  /\ UNCHANGED <<timeVars, bufVars, highlightVars, selectVars, focusVars,
                 bodyPos, sceneLines, workerInbox, mainInbox, tleData, loaded, kepler,
                 overlap>>

\* keydown Escape: clearSelection()
KeydownEscape ==
  /\ Handler
  /\ selectedIndex' = ClearedSelectedIndex
  /\ selectedSatellite' = <<>>
  /\ selectedTrajectory' = ClearedSelectedTrajectory
  /\ sceneLines' = [sceneLines EXCEPT !.selected = ClearedSelectedLines]
  /\ reads' = {}
  /\ UNCHANGED <<timeVars, bufVars, highlightVars, focusVars, bodyPos,
                 workerInbox, mainInbox, tleData, loaded, kepler, overlap>>

\* -------------------------------------------------------- floating origin
\* Variant: markers are left where they are.
MovedMarker_Still(marker, deltaOffset) == marker

MovedMarker(marker, deltaOffset) ==
  IF marker # <<>> THEN <<marker[1] + deltaOffset>> ELSE marker

setCameraTarget(targetName) ==
  LET targetAbsolutePosition == TargetAbsolutePosition(targetName, currentTime)
      newOffset   == 0 - targetAbsolutePosition
      deltaOffset == newOffset - sceneOffset
  IN /\ Handler
     /\ cameraTargetObject' = targetName
     /\ sceneOffset' = newOffset
     /\ highlightedSatellite' = MovedMarker(highlightedSatellite, deltaOffset)
     /\ selectedSatellite' = MovedMarker(selectedSatellite, deltaOffset)
     \* clearTrajectory(); clearSelectedTrajectory()
     /\ currentTrajectory' = <<>>
     /\ selectedTrajectory' = <<>>
     /\ sceneLines' =
          [highlighted |-> IF currentTrajectory # <<>>
                           THEN sceneLines.highlighted - 1
                           ELSE sceneLines.highlighted,
           selected    |-> IF selectedTrajectory # <<>>
                           THEN sceneLines.selected - 1
                           ELSE sceneLines.selected]
     /\ updatePositions(currentTime, newOffset, tleData,
                        workerInbox \o
                          (IF selectedIndex # -1
                           THEN TrajectoryRequest(selectedIndex, tleData, currentTime)
                           ELSE <<>>))
     /\ reads' = {}
     /\ UNCHANGED <<timeVars, bufVars, highlightedIndex, selectedIndex,
                    mainInbox, tleData, loaded, kepler>>

\* ------------------------------------------ setCameraTarget, unknown name
\* A data-target value that is not a key of targetObjects.
UnknownBodies == {"ceres"}

\* setCameraTarget with a name that targetObjects does not hold: the lookup
\* yields undefined, which is stored as the focus; getPlanetPosition logs
\* and returns the zero vector, so targetAbsolutePosition and newOffset are
\* computed as for a body at the origin; reading the bounding sphere of the
\* undefined mesh then throws, before sceneOffset is assigned.
setCameraTargetUnknown(targetName) ==
  /\ targetName \notin targetObjects
  /\ Handler
  /\ cameraTargetObject' = "undefined"
  /\ reads' = {}
  /\ UNCHANGED <<sceneOffset, bodyPos, timeVars, bufVars, highlightVars,
                 selectVars, sceneLines, workerInbox, mainInbox, tleData,
                 loaded, kepler, overlap>>

\* ------------------------------------------------------ worker.onmessage
Line(index, points) == <<[index |-> index, points |-> points]>>

\* Variant: the new line is added, the old one stays in the scene.
ReplacedLines_Kept(old, n) == n + 1

\* Lines in the scene after a slot's line has been replaced by a new one.
ReplacedLines(old, n) == IF old # <<>> THEN (n - 1) + 1 ELSE n + 1

\* Variant: a reply that is not for the selection goes to the hover slot.
TrajectorySlot_Fallthrough(satelliteIndex) ==
  IF satelliteIndex = selectedIndex THEN "selected" ELSE "highlighted"

\* Variant: while a selection exists every reply goes to its slot.
TrajectorySlot_SelectedAny(satelliteIndex) ==
  IF satelliteIndex = selectedIndex \/ selectedIndex # -1 THEN "selected"
  ELSE IF satelliteIndex = highlightedIndex THEN "highlighted"
  ELSE "none"

\* TRAJECTORY_DATA: the slot that takes the reply, by its satelliteIndex.
TrajectorySlot(satelliteIndex) ==
  IF satelliteIndex = selectedIndex THEN "selected"
  ELSE IF satelliteIndex = highlightedIndex THEN "highlighted"
  ELSE "none"

onmessage(msg) ==
  LET earthPos == bodyPos["earth"]
  IN IF msg.type = "POSITIONS_UPDATE"
     THEN IF ~ChunkFits(msg)
          THEN /\ reads' = {}
               /\ UNCHANGED <<bufVars, highlightVars, selectVars, sceneLines>>
          ELSE /\ buf' = WriteChunk(buf, msg, earthPos)
               /\ written' = written \cup
                    (msg.startIndex..(msg.startIndex + msg.count - 1))
               /\ satellitesCount' = NewTotalCount(satellitesCount, msg)
               /\ satelliteCount' =
                    IF msg.startIndex + msg.count > satellitesCount
                    THEN msg.startIndex + msg.count ELSE satelliteCount
               /\ selectedSatellite' =
                    RefreshedMarker(selectedSatellite, selectedIndex, buf')
               /\ highlightedSatellite' =
                    RefreshedMarker(highlightedSatellite, highlightedIndex, buf')
               /\ reads' =
                    RefreshReads(selectedSatellite, selectedIndex, satellitesCount')
                    \cup RefreshReads(highlightedSatellite, highlightedIndex,
                                      satellitesCount')
               /\ UNCHANGED <<highlightedIndex, selectedIndex, currentTrajectory,
                              selectedTrajectory, sceneLines>>
     ELSE \* TRAJECTORY_DATA
          LET moved == [k \in 1..Len(msg.trajectoryPoints) |->
                          msg.trajectoryPoints[k] + earthPos]
          IN /\ IF TrajectorySlot(msg.satelliteIndex) = "selected"
                THEN /\ selectedTrajectory' = Line(msg.satelliteIndex, moved)
                     /\ sceneLines' =
                          [sceneLines EXCEPT !.selected =
                             ReplacedLines(selectedTrajectory, sceneLines.selected)]
                     /\ UNCHANGED currentTrajectory
                ELSE IF TrajectorySlot(msg.satelliteIndex) = "highlighted"
                THEN /\ currentTrajectory' = Line(msg.satelliteIndex, moved)
                     /\ sceneLines' =
                          [sceneLines EXCEPT !.highlighted =
                             ReplacedLines(currentTrajectory, sceneLines.highlighted)]
                     /\ UNCHANGED selectedTrajectory
                ELSE UNCHANGED <<currentTrajectory, selectedTrajectory, sceneLines>>
             /\ reads' = {}
             /\ UNCHANGED <<bufVars, highlightedIndex, highlightedSatellite,
                            selectedIndex, selectedSatellite>>

\* The reply at the head of the main thread's queue is handled.
Deliver ==
  /\ mainInbox # <<>>
  /\ onmessage(Head(mainInbox))
  /\ mainInbox' = Tail(mainInbox)
  /\ hist' = <<>>
  /\ UNCHANGED <<timeVars, focusVars, bodyPos, workerInbox, tleData, loaded, kepler,
                 events, overlap>>

\* The worker handles the request at the head of its queue and posts every
\* reply to it.
WorkerStep ==
  /\ workerInbox # <<>>
  /\ LET req == Head(workerInbox)
     IN mainInbox' = mainInbox \o
          (IF req.type = "CALCULATE_POSITIONS"
           THEN calculatePositions(req.n, req.time)
           ELSE <<calculateTrajectory(req.satelliteIndex, req.time, req.points)>>)
  /\ Len(mainInbox') <= MaxMainQueue
  /\ workerInbox' = Tail(workerInbox)
  /\ reads' = {}
  /\ UNCHANGED <<timeVars, bufVars, highlightVars, selectVars, focusVars,
                 bodyPos, sceneLines, tleData, loaded, kepler, events, overlap, hist>>

Next ==
  \/ \E parsed \in 0..MaxParsed : InitTLEs(parsed)
  \/ \E direction \in {-1, 1} : StepTime(direction)
  \/ \E now \in Times : PlayClick(now)
  \/ \E now \in Times : UpdateRealTime(now)
  \/ UpdatePaused
  \/ \E hit \in -1..(MAX_SATELLITES - 1) : OnMouseMove(hit)
  \/ OnMouseDown
  \/ \E foundIndex \in Slots : SearchFound(foundIndex)
  \/ SearchNotFound
  \/ KeydownEscape
  \/ \E targetName \in targetObjects : setCameraTarget(targetName)
  \/ WorkerStep
  \/ Deliver

Spec == Init /\ [][Next]_vars

\* A POSITIONS_UPDATE message handed straight to worker.onmessage: any range
\* of at most BATCH_SIZE slots, inside or beyond the buffer, with the
\* positions the worker computes for them.
InjectPositionsUpdate(start, cnt, date) ==
  LET msg == PositionsUpdate(start, cnt,
        [j \in 1..cnt |-> calculateSatellitePosition(start + j - 1, date)])
      entry == [msg |-> msg, buf |-> buf, count |-> satellitesCount,
                total |-> satelliteCount, selected |-> selectedSatellite,
                highlighted |-> highlightedSatellite]
  IN /\ Event
     /\ onmessage(msg)
     /\ hist' = IF hist = <<>> THEN <<entry>> ELSE <<hist[Len(hist)], entry>>
     /\ UNCHANGED overlap
     /\ UNCHANGED <<timeVars, focusVars, bodyPos, workerInbox, mainInbox,
                    tleData, loaded, kepler>>

NextHandler ==
  \/ Next
  \/ \E start \in 0..MAX_SATELLITES, cnt \in 1..BATCH_SIZE :
        InjectPositionsUpdate(start, cnt, currentTime)

SpecHandler == Init /\ [][NextHandler]_vars

\* The program with target buttons whose data-target names no body.
NextLookup ==
  \/ Next
  \/ \E targetName \in UnknownBodies : setCameraTargetUnknown(targetName)

SpecLookup == Init /\ [][NextLookup]_vars

\* ----------------------------------- getPlanetPosition's call of solveKepler
mainVars ==
  <<currentTime, isRealTime, sameDate, sceneOffset, bodyPos,
    cameraTargetObject, tleData, loaded, buf, satellitesCount,
    satelliteCount, highlightedIndex, highlightedSatellite, selectedIndex,
    selectedSatellite, currentTrajectory, selectedTrajectory, sceneLines,
    workerInbox, mainInbox, reads, events, overlap, hist, written>>

\* solveKepler(M, e) has been entered for a body with semi-major axis a:
\* E = M, delta = 1, i = 0.
InitKepler ==
  /\ MainInit
  /\ currentTime = 0
  /\ kepler \in [pc : {"loop"}, a : SemiMajorAxes, e : Eccentricities,
                 M : MeanAnomalies, E : MeanAnomalies, delta : {One},
                 i : {0}]
  /\ kepler.E = kepler.M

\* One pass through the body of the while loop.
solveKeplerIterate ==
  /\ kepler.pc = "loop"
  /\ LoopCondition(kepler.delta, kepler.i)
  /\ LET delta == NewtonDelta(kepler.E, kepler.e, kepler.M)
     IN kepler' = [kepler EXCEPT !.delta = delta,
                                 !.E = kepler.E - delta,
                                 !.i = kepler.i + 1]
  /\ UNCHANGED mainVars

\* The loop condition fails: return E.
solveKeplerReturn ==
  /\ kepler.pc = "loop"
  /\ ~LoopCondition(kepler.delta, kepler.i)
  /\ kepler' = [kepler EXCEPT !.pc = "done"]
  /\ UNCHANGED mainVars

NextKepler == solveKeplerIterate \/ solveKeplerReturn

\* The loop is sequential code: it runs on until it returns.
SpecKepler == InitKepler /\ [][NextKepler]_vars /\ WF_vars(NextKepler)

\* ------------------------------- getPlanetPosition at t and a period later
\* getPlanetPosition is about to be called for a body at time dt.
InitOrbit ==
  /\ MainInit
  /\ currentTime = 0
  /\ kepler \in [pc : {"call"}, a : SemiMajorAxes, e : OrbitEccentricities,
                 M0 : OrbitEpochAnomalies, n : MeanMotions, dt : OrbitTimes,
                 M : {0}, pos : {<<>>}, before : {<<>>}]

\* The call: the mean anomaly at dt, then the position from it.
getPlanetPositionCall ==
  /\ kepler.pc = "call"
  /\ LET M == MeanAnomaly(kepler.M0, kepler.n, kepler.dt)
     IN kepler' = [kepler EXCEPT
                     !.pc = "returned",
                     !.M = M,
                     !.pos = OrbitalPlanePosition(kepler.a, kepler.e, M)]
  /\ UNCHANGED mainVars

\* The next call is for one orbital period (2 pi / n) later.
AdvanceOnePeriod ==
  /\ kepler.pc = "returned"
  /\ kepler.dt + TwoPi \div kepler.n \in OrbitTimes
  /\ kepler' = [kepler EXCEPT !.pc = "call",
                              !.dt = kepler.dt + TwoPi \div kepler.n,
                              !.before = kepler.pos]
  /\ UNCHANGED mainVars

NextOrbit == getPlanetPositionCall \/ AdvanceOnePeriod

SpecOrbit == InitOrbit /\ [][NextOrbit]_vars

\* =============================================================== claims
\* What the worker computes for record i at currentTime, moved by Earth's
\* display position as the POSITIONS_UPDATE handler moves it.
CurrentPosition(i) ==
  calculateSatellitePosition(i, currentTime) + bodyPos["earth"]

ChunkEnd(msg) == msg.startIndex + msg.count
Oversized(msg) == ChunkEnd(msg) > MAX_SATELLITES
Range(msg) == {i \in Slots : i >= msg.startIndex /\ i < ChunkEnd(msg)}
ChunkValue(msg, i) == msg.batchPositions[i - msg.startIndex + 1] + bodyPos["earth"]

\* ------------------------------------------------------------------ C1
\* C1: two POSITIONS_UPDATE chunks with disjoint slot ranges, handled back to
\* back in one order, leave the buffer and the valid count that the other
\* order leaves from the same state; the count is the larger chunk end (the
\* count before, where that was larger still), and every slot of a range
\* holds the value of its own chunk.
C1_OrderIndependence ==
  (/\ Len(hist) = 2
   /\ ~Oversized(hist[1].msg) /\ ~Oversized(hist[2].msg)
   /\ Range(hist[1].msg) \cap Range(hist[2].msg) = {})
  => LET first == hist[1].msg
         second == hist[2].msg
         earthPos == bodyPos["earth"]
     IN /\ buf = WriteChunk(WriteChunk(hist[1].buf, second, earthPos),
                            first, earthPos)
        /\ satellitesCount =
             NewTotalCount(NewTotalCount(hist[1].count, second), first)
        /\ satellitesCount =
             Max(hist[1].count, Max(ChunkEnd(first), ChunkEnd(second)))
        /\ \A i \in Range(first) : buf[i] = ChunkValue(first, i)
        /\ \A i \in Range(second) : buf[i] = ChunkValue(second, i)

\* The higher chunk was handled first, on an empty buffer, then the lower one.
C1_Witness ==
  /\ Len(hist) = 2
  /\ ~Oversized(hist[1].msg) /\ ~Oversized(hist[2].msg)
  /\ Range(hist[1].msg) \cap Range(hist[2].msg) = {}
  /\ hist[2].msg.startIndex < hist[1].msg.startIndex
  /\ hist[1].count = 0
  /\ satellitesCount = ChunkEnd(hist[1].msg)

\* ------------------------------------------------------------------ C2
\* The POSITIONS_UPDATE messages worker.onmessage handles in a step: the head
\* of the main inbox, or the injected message.
HandledChunks ==
  {msg \in (IF mainInbox # <<>> /\ mainInbox' = Tail(mainInbox)
            THEN {Head(mainInbox)} ELSE {})
           \cup (IF events' = events + 1 /\ hist' # <<>>
                 THEN {hist'[Len(hist')].msg} ELSE {}) :
     msg.type = "POSITIONS_UPDATE" /\ ~Oversized(msg)}

\* C2: the valid count never decreases; an accepted chunk makes it
\* max(old count, startIndex + count), from the chunk's own bounds; no step
\* other than the handling of an accepted chunk changes it.
C2_CountMonotone ==
  [][/\ satellitesCount' >= satellitesCount
     /\ \A msg \in HandledChunks :
          satellitesCount' = Max(satellitesCount, ChunkEnd(msg))
     /\ satellitesCount' # satellitesCount => HandledChunks # {}]_vars

\* An accepted chunk that ends below the count has been handled, and the
\* count is what it was.
C2_Witness ==
  /\ hist # <<>>
  /\ ~Oversized(hist[Len(hist)].msg)
  /\ ChunkEnd(hist[Len(hist)].msg) < hist[Len(hist)].count
  /\ satellitesCount = hist[Len(hist)].count

\* ------------------------------------------------------------------ C3
\* The buffer, the counts and the markers as entry k of hist has left them.
After(k) ==
  IF k < Len(hist)
  THEN [buf |-> hist[k + 1].buf, count |-> hist[k + 1].count,
        total |-> hist[k + 1].total, selected |-> hist[k + 1].selected,
        highlighted |-> hist[k + 1].highlighted]
  ELSE [buf |-> buf, count |-> satellitesCount, total |-> satelliteCount,
        selected |-> selectedSatellite, highlighted |-> highlightedSatellite]

Before(k) ==
  [buf |-> hist[k].buf, count |-> hist[k].count, total |-> hist[k].total,
   selected |-> hist[k].selected, highlighted |-> hist[k].highlighted]

\* C3: a chunk with startIndex + count > MAX_SATELLITES is dropped whole: no
\* slot, count or marker position changes; a chunk handled after it is
\* written as usual.
C3_OversizedDropped ==
  /\ \A k \in 1..Len(hist) : Oversized(hist[k].msg) => After(k) = Before(k)
  /\ (Len(hist) = 2 /\ Oversized(hist[1].msg) /\ ~Oversized(hist[2].msg))
     => /\ \A i \in Range(hist[2].msg) : buf[i] = ChunkValue(hist[2].msg, i)
        /\ \A i \in Slots \ Range(hist[2].msg) : buf[i] = hist[1].buf[i]
        /\ satellitesCount = Max(hist[1].count, ChunkEnd(hist[2].msg))

\* An oversized chunk that reaches into the buffer was handled, then a
\* fitting chunk that raised the count.
C3_Witness ==
  /\ Len(hist) = 2
  /\ Oversized(hist[1].msg) /\ hist[1].msg.startIndex < MAX_SATELLITES
  /\ ~Oversized(hist[2].msg)
  /\ hist[1].count < satellitesCount
  /\ satellitesCount = ChunkEnd(hist[2].msg)

\* ------------------------------------------------------------------ C4
\* C4: the same chunk handled twice running, with no time or focus change
\* between, leaves the buffer, the counts and the markers as the first
\* handling left them.
C4_Redelivery ==
  (Len(hist) = 2 /\ hist[1].msg = hist[2].msg /\ ~Oversized(hist[1].msg))
  => After(2) = Before(2)

\* The chunk changed the buffer and the count the first time.
C4_Witness ==
  /\ Len(hist) = 2 /\ hist[1].msg = hist[2].msg /\ ~Oversized(hist[1].msg)
  /\ hist[1].buf # buf
  /\ hist[1].count < satellitesCount

\* ------------------------------------------------------------------ C5
\* C5: when a batch was requested while an earlier batch was outstanding,
\* then once no request and no chunk of either is outstanding every slot in
\* [0, N) holds the position for the latest currentTime.
C5_SupersededBatch ==
  (overlap /\ ~OutstandingPositions)
  => /\ satellitesCount = tleData
     /\ \A i \in Slots : i < tleData => buf[i] = CurrentPosition(i)

\* Both batches have been delivered, the second for another time than the
\* program started with.
C5_Witness ==
  /\ overlap /\ ~OutstandingPositions
  /\ ~sameDate
  /\ tleData = MAX_SATELLITES
  /\ satellitesCount = tleData

\* ------------------------------------------------------------------ C6
\* C6 as stated: in every reachable state every slot below the valid count
\* holds the position for the current currentTime.
C6_EverySlotCurrent ==
  \A i \in Slots : i < satellitesCount => buf[i] = CurrentPosition(i)

\* A batch request, or a chunk that covers slot i, is outstanding.
PendingFor(i) ==
  \/ \E k \in 1..Len(workerInbox) :
       workerInbox[k].type = "CALCULATE_POSITIONS" /\ i < workerInbox[k].n
  \/ \E k \in 1..Len(mainInbox) :
       /\ mainInbox[k].type = "POSITIONS_UPDATE"
       /\ i \in Range(mainInbox[k])

\* C6 amended: every slot below the valid count for which no batch request
\* and no chunk is outstanding holds the position for the current
\* currentTime.
C6_SettledSlotCurrent ==
  \A i \in Slots :
    (i < satellitesCount /\ ~PendingFor(i)) => buf[i] = CurrentPosition(i)

\* After a change, one chunk of the new batch has arrived and one has not: a
\* settled slot holds the new position, a pending slot the old one.
C6_Witness ==
  /\ events > 0
  /\ \E i, j \in Slots :
       /\ i < satellitesCount /\ j < satellitesCount
       /\ ~PendingFor(i) /\ buf[i] = CurrentPosition(i)
       /\ PendingFor(j) /\ buf[j] # CurrentPosition(j)

\* ------------------------------------------------------------------ C7
\* C7: no handler reads a buffer slot at an index that is not below the
\* valid count (hover, click, search, marker refresh).
C7_NoReadBeyondCount == \A r \in reads : r[1] < r[2]

\* ------------------------------------------------------------------ C8
\* C8: after setCameraTarget(B) the display position of B is the origin, for
\* every focusable body and whatever the focus was before.
C8_TargetAtOrigin ==
  [][\A targetName \in targetObjects :
       setCameraTarget(targetName) => bodyPos'[targetName] = 0]_vars

\* ------------------------------------------------------------------ C9
\* C9: in every reachable state the display position of the focus body is
\* the origin, after time steps and real-time ticks too. The Moon, which the
\* focus change itself does not centre, is left aside here.
C9_FocusAtOrigin ==
  cameraTargetObject # "moon" => bodyPos[cameraTargetObject] = 0

\* ----------------------------------------------------------------- C10
\* C10: setCameraTarget moves every existing marker by the new offset minus
\* the old offset.
C10_MarkersTranslated ==
  [][\A targetName \in targetObjects :
       setCameraTarget(targetName) =>
         /\ highlightedSatellite # <<>> =>
              highlightedSatellite' =
                <<highlightedSatellite[1] + (sceneOffset' - sceneOffset)>>
         /\ selectedSatellite # <<>> =>
              selectedSatellite' =
                <<selectedSatellite[1] + (sceneOffset' - sceneOffset)>>]_vars

\* A marker made while the offset was zero stands, after a focus change, at
\* its slot's position plus the new offset.
C10_Witness ==
  /\ sceneOffset # 0
  /\ highlightedSatellite # <<>>
  /\ highlightedIndex # -1
  /\ highlightedSatellite[1] = buf[highlightedIndex] + sceneOffset

\* ----------------------------------------------------------------- C11
\* C11: setCameraTarget adds the new offset minus the old offset to every
\* buffer entry below the valid count, so each entry is its previous display
\* position plus the delta right after the call.
C11_BufferTranslated ==
  [][\A targetName \in targetObjects :
       setCameraTarget(targetName) =>
         \A i \in Slots :
           i < satellitesCount =>
             buf'[i] = buf[i] + (sceneOffset' - sceneOffset)]_vars

\* ----------------------------------------------------------------- C12
\* A trajectory line with every point moved by delta.
MovedLine(line, delta) ==
  IF line = <<>> THEN line
  ELSE Line(line[1].index,
            [k \in 1..Len(line[1].points) |-> line[1].points[k] + delta])

\* C12: a trajectory line that is in the scene before setCameraTarget is in
\* the scene right after it, its points moved by the new offset minus the
\* old offset.
C12_TrajectoriesTranslated ==
  [][\A targetName \in targetObjects :
       setCameraTarget(targetName) =>
         /\ currentTrajectory # <<>> =>
              currentTrajectory' =
                MovedLine(currentTrajectory, sceneOffset' - sceneOffset)
         /\ selectedTrajectory # <<>> =>
              selectedTrajectory' =
                MovedLine(selectedTrajectory, sceneOffset' - sceneOffset)]_vars

\* ----------------------------------------------------------------- C13
\* C13: setCameraTarget with the body that is the focus already, at the time
\* of the last focus change (the offset it computes is the offset in force),
\* changes no offset, marker, trajectory or body position and posts nothing
\* to the worker.
C13_RepeatedFocusNoOp ==
  [][\A targetName \in targetObjects :
       (/\ setCameraTarget(targetName)
        /\ targetName = cameraTargetObject
        /\ sceneOffset = 0 - TargetAbsolutePosition(targetName, currentTime))
       => UNCHANGED <<sceneOffset, highlightedSatellite, selectedSatellite,
                      currentTrajectory, selectedTrajectory, sceneLines,
                      bodyPos, workerInbox>>]_vars

\* ----------------------------------------------------------------- C14
\* worker.onmessage handles the head of the main inbox in this step.
DeliverStep ==
  mainInbox # <<>> /\ mainInbox' = Tail(mainInbox) /\ events' = events

\* The message is the reply to a trajectory request for a record.
TrajectoryReply(msg) ==
  msg.type = "TRAJECTORY_DATA" /\ msg.satelliteIndex \in Slots

\* C14: a trajectory reply for an index that is neither selectedIndex nor
\* highlightedIndex when it is handled changes no trajectory: no line of
\* either slot is added, replaced or removed.
C14_StaleReplyDiscarded ==
  [][(/\ DeliverStep
      /\ TrajectoryReply(Head(mainInbox))
      /\ Head(mainInbox).satelliteIndex # selectedIndex
      /\ Head(mainInbox).satelliteIndex # highlightedIndex)
     => UNCHANGED <<currentTrajectory, selectedTrajectory, sceneLines>>]_vars

\* The reply to a request for an index arrives after the hover or the
\* selection has moved to another index; its handling is the next step.
C14_Witness ==
  /\ mainInbox # <<>>
  /\ TrajectoryReply(Head(mainInbox))
  /\ Head(mainInbox).satelliteIndex # selectedIndex
  /\ Head(mainInbox).satelliteIndex # highlightedIndex
  /\ selectedIndex # -1 \/ highlightedIndex # -1

\* ----------------------------------------------------------------- C15
\* A later request, or the reply to one, for the same index is on its way.
Superseded(index) ==
  \/ \E k \in 1..Len(workerInbox) :
       /\ workerInbox[k].type = "CALCULATE_TRAJECTORY"
       /\ workerInbox[k].satelliteIndex = index
  \/ \E k \in 2..Len(mainInbox) :
       /\ mainInbox[k].type = "TRAJECTORY_DATA"
       /\ mainInbox[k].satelliteIndex = index

\* C15: the reply to a trajectory request that a later request has
\* superseded is discarded, also when it is for the index its slot holds
\* now (select i twice; hover i, leave, hover i again).
C15_SupersededReplyDiscarded ==
  [][(/\ DeliverStep
      /\ TrajectoryReply(Head(mainInbox))
      /\ Superseded(Head(mainInbox).satelliteIndex))
     => UNCHANGED <<currentTrajectory, selectedTrajectory, sceneLines>>]_vars

\* ----------------------------------------------------------------- C16
\* Lines in the scene for a slot whose variable holds `line`.
Visible(line) == IF line # <<>> THEN 1 ELSE 0

\* C16: the scene holds at most one line of the highlighted slot and at most
\* one of the selected slot, the one the slot's variable refers to: a line
\* that is replaced has been removed from the scene.
C16_OneLinePerSlot ==
  /\ sceneLines.highlighted = Visible(currentTrajectory)
  /\ sceneLines.selected = Visible(selectedTrajectory)
  /\ Len(currentTrajectory) <= 1
  /\ Len(selectedTrajectory) <= 1

\* A search selected a record and both replies to its two trajectory
\* requests have been handled: the second line replaced the first.
C16_Witness ==
  /\ events = 1
  /\ selectedIndex # -1
  /\ workerInbox = <<>> /\ mainInbox = <<>>
  /\ selectedTrajectory # <<>>
  /\ sceneLines.selected = 1

\* ----------------------------------------------------------------- C17
\* C17: Escape (clearSelection) leaves the selected slot with index -1 and no
\* line, the mouse leaving all objects leaves the highlighted slot with index
\* -1 and no line; a slot whose index stays -1 gets no line, whatever reply
\* is handled meanwhile.
C17_ClearedSlotStaysIdle ==
  [][/\ KeydownEscape =>
          /\ selectedIndex' = -1 /\ selectedSatellite' = <<>>
          /\ selectedTrajectory' = <<>> /\ sceneLines'.selected = 0
     /\ OnMouseMove(-1) =>
          /\ highlightedIndex' = -1 /\ highlightedSatellite' = <<>>
          /\ currentTrajectory' = <<>> /\ sceneLines'.highlighted = 0
     /\ (selectedIndex = -1 /\ selectedIndex' = -1) =>
          (selectedTrajectory' = <<>> /\ sceneLines'.selected = 0)
     /\ (highlightedIndex = -1 /\ highlightedIndex' = -1) =>
          (currentTrajectory' = <<>> /\ sceneLines'.highlighted = 0)]_vars

\* Both slots have been cleared while the reply to a trajectory request made
\* for one of them is still to be handled.
C17_Witness ==
  /\ events >= 2
  /\ selectedIndex = -1 /\ highlightedIndex = -1
  /\ selectedTrajectory = <<>> /\ currentTrajectory = <<>>
  /\ \E k \in 1..Len(mainInbox) : TrajectoryReply(mainInbox[k])

\* ----------------------------------------------------------------- C18
\* C18: hover events leave selectedIndex, the selection marker and the
\* selected line alone; select and clear-selection events leave
\* highlightedIndex, the hover marker and the hover line alone; a trajectory
\* reply changes the line of the slot whose index it carries and of no other.
C18_SlotsIndependent ==
  [][/\ (\E hit \in -1..(MAX_SATELLITES - 1) : OnMouseMove(hit)) =>
          /\ UNCHANGED <<selectedIndex, selectedSatellite, selectedTrajectory>>
          /\ sceneLines'.selected = sceneLines.selected
     /\ (\/ OnMouseDown
         \/ KeydownEscape
         \/ \E foundIndex \in Slots : SearchFound(foundIndex)) =>
          /\ UNCHANGED <<highlightedIndex, highlightedSatellite,
                         currentTrajectory>>
          /\ sceneLines'.highlighted = sceneLines.highlighted
     /\ (DeliverStep /\ Head(mainInbox).type = "TRAJECTORY_DATA") =>
          /\ \/ currentTrajectory' = currentTrajectory
             \/ selectedTrajectory' = selectedTrajectory
          /\ Head(mainInbox).satelliteIndex # selectedIndex =>
               /\ selectedTrajectory' = selectedTrajectory
               /\ sceneLines'.selected = sceneLines.selected
          /\ Head(mainInbox).satelliteIndex # highlightedIndex =>
               /\ currentTrajectory' = currentTrajectory
               /\ sceneLines'.highlighted = sceneLines.highlighted]_vars

\* One record is selected and another hovered, each slot with its own line.
C18_Witness ==
  /\ selectedIndex # -1 /\ highlightedIndex # -1
  /\ selectedIndex # highlightedIndex
  /\ selectedTrajectory # <<>> /\ selectedTrajectory[1].index = selectedIndex
  /\ currentTrajectory # <<>> /\ currentTrajectory[1].index = highlightedIndex

\* ----------------------------------------------------------------- C19
\* The worker handles a CALCULATE_POSITIONS request in this step.
WorkerPositionsStep ==
  /\ workerInbox # <<>>
  /\ Head(workerInbox).type = "CALCULATE_POSITIONS"
  /\ workerInbox' = Tail(workerInbox)

\* The replies the worker posts in this step.
Posted == SubSeq(mainInbox', Len(mainInbox) + 1, Len(mainInbox'))

ChunkSlots(msg) == msg.startIndex..(msg.startIndex + msg.count - 1)

\* C19: for a CALCULATE_POSITIONS request with N records the worker posts
\* ceil(N / BATCH_SIZE) POSITIONS_UPDATE replies, each with
\* count = min(BATCH_SIZE, N - startIndex) positions; their ranges are
\* pairwise disjoint and cover [0, N) exactly.
C19_WorkerChunking ==
  [][WorkerPositionsStep =>
       LET N == Head(workerInbox).n
       IN /\ Len(Posted) = (N + BATCH_SIZE - 1) \div BATCH_SIZE
          /\ \A k \in 1..Len(Posted) :
               /\ Posted[k].type = "POSITIONS_UPDATE"
               /\ Posted[k].count = Min(BATCH_SIZE, N - Posted[k].startIndex)
               /\ Len(Posted[k].batchPositions) = Posted[k].count
          /\ \A k, m \in 1..Len(Posted) :
               k # m => ChunkSlots(Posted[k]) \cap ChunkSlots(Posted[m]) = {}
          /\ UNION {ChunkSlots(Posted[k]) : k \in 1..Len(Posted)}
               = 0..(N - 1)]_vars

\* The replies to a request for MAX_SATELLITES records wait in the main
\* inbox: a full chunk and a short last one.
C19_Witness ==
  /\ Len(mainInbox) = 2
  /\ mainInbox[1].type = "POSITIONS_UPDATE"
  /\ mainInbox[2].type = "POSITIONS_UPDATE"
  /\ mainInbox[1].startIndex = 0 /\ mainInbox[1].count = BATCH_SIZE
  /\ mainInbox[2].startIndex = BATCH_SIZE
  /\ mainInbox[2].count = MAX_SATELLITES - BATCH_SIZE
  /\ mainInbox[2].count < BATCH_SIZE

\* ----------------------------------------------------------------- C20
\* C20: a record whose propagation fails (no position, or a throw on its
\* element lines) gets the sentinel 0 in its place of the chunk; every other
\* record of the chunk has its computed position, in its own place; the
\* chunk is as long as without the failure and the chunks after it are
\* posted.
C20_FailureIsolated ==
  [][WorkerPositionsStep =>
       LET req == Head(workerInbox)
       IN /\ \A rec \in 0..(req.n - 1) :
               \E k \in 1..Len(Posted) :
                 /\ rec \in ChunkSlots(Posted[k])
                 /\ Len(Posted[k].batchPositions) = Posted[k].count
                 /\ Posted[k].batchPositions[rec - Posted[k].startIndex + 1] =
                      IF TleKind(rec) = "ok" THEN sgp4(rec, req.time) ELSE 0
          /\ \A k \in 1..Len(Posted) :
               \/ Posted[k].count = BATCH_SIZE
               \/ Posted[k].startIndex + Posted[k].count = req.n]_vars

\* Posted chunks in which a record without a position follows a good one,
\* and a last chunk whose only record throws.
C20_Witness ==
  \E k \in 1..Len(mainInbox) :
    /\ k < Len(mainInbox)
    /\ mainInbox[k].type = "POSITIONS_UPDATE"
    /\ mainInbox[k].startIndex = 0 /\ mainInbox[k].count = 2
    /\ mainInbox[k].batchPositions[1] # 0
    /\ mainInbox[k].batchPositions[2] = 0
    /\ mainInbox[k + 1].type = "POSITIONS_UPDATE"
    /\ mainInbox[k + 1].startIndex = 2
    /\ TleKind(2) = "throws"
    /\ mainInbox[k + 1].batchPositions = <<0>>

\* ----------------------------------------------------------------- C21
\* The worker handles a CALCULATE_TRAJECTORY request in this step.
WorkerTrajectoryStep ==
  /\ workerInbox # <<>>
  /\ Head(workerInbox).type = "CALCULATE_TRAJECTORY"
  /\ workerInbox' = Tail(workerInbox)

\* The reply the worker's catch block sends: no satelliteIndex, no points.
FailureReply(msg) ==
  /\ msg.type = "TRAJECTORY_DATA"
  /\ msg.satelliteIndex = Undefined
  /\ msg.trajectoryPoints = <<>>

\* C21: the worker answers a CALCULATE_TRAJECTORY request with exactly one
\* TRAJECTORY_DATA reply: the sampled points of the record when its
\* propagation succeeds, an empty points list when it throws. A failure
\* reply at the head of the main inbox can be handled, and its handling
\* changes no trajectory line and takes it off the queue.
C21_OneTrajectoryReply ==
  [][/\ WorkerTrajectoryStep =>
          LET req == Head(workerInbox)
          IN /\ Len(Posted) = 1
             /\ Posted[1].type = "TRAJECTORY_DATA"
             /\ TleKind(req.satelliteIndex) = "throws" =>
                  Posted[1].trajectoryPoints = <<>>
             /\ TleKind(req.satelliteIndex) = "ok" =>
                  /\ Posted[1].satelliteIndex = req.satelliteIndex
                  /\ Posted[1].trajectoryPoints # <<>>
                  /\ \A k \in 1..Len(Posted[1].trajectoryPoints) :
                       Posted[1].trajectoryPoints[k] =
                         sgp4(req.satelliteIndex, req.time) + (k - 1)
     /\ (mainInbox # <<>> /\ FailureReply(Head(mainInbox))) => ENABLED Deliver
     /\ (DeliverStep /\ FailureReply(Head(mainInbox))) =>
          UNCHANGED <<currentTrajectory, selectedTrajectory, sceneLines>>]_vars

\* The reply to a trajectory request for the record whose element lines
\* throw is at the head of the main inbox while that record is selected
\* and a message waits behind the reply.
C21_Witness ==
  /\ Len(mainInbox) >= 2
  /\ FailureReply(Head(mainInbox))
  /\ selectedIndex # -1 /\ TleKind(selectedIndex) = "throws"

\* ----------------------------------------------------------------- C22
\* C22: getPlanetPosition with a body that has no orbital elements reports
\* a lookup failure, not a vector (in particular not the zero vector), and
\* setCameraTarget with an unknown name leaves sceneOffset and the focus as
\* they were.
C22_UnknownBodyReported ==
  [][\A targetName \in UnknownBodies :
       setCameraTargetUnknown(targetName) =>
         /\ getPlanetPosition(targetName, currentTime) \notin Int
         /\ UNCHANGED <<sceneOffset, cameraTargetObject>>]_vars

\* ----------------------------------------------------------------- C23
\* worker.onmessage handles a POSITIONS_UPDATE chunk that fits the buffer.
AcceptedChunkStep ==
  /\ DeliverStep
  /\ Head(mainInbox).type = "POSITIONS_UPDATE"
  /\ ~Oversized(Head(mainInbox))

\* C23 as stated: each position of an accepted chunk is written to slot
\* startIndex + i as worker position + absolute position of the focus body
\* + sceneOffset, whatever the focus body is.
C23_FocusBodyAdded ==
  [][AcceptedChunkStep =>
       LET msg == Head(mainInbox)
       IN \A i \in 0..(msg.count - 1) :
            buf'[msg.startIndex + i] =
              msg.batchPositions[i + 1]
                + TargetAbsolutePosition(cameraTargetObject, currentTime)
                + sceneOffset]_vars

\* C23, amended: each position of an accepted chunk is written to slot
\* startIndex + i as worker position + Earth's absolute position
\* + sceneOffset, whatever the focus body is.
C23_EarthAdded ==
  [][AcceptedChunkStep =>
       LET msg == Head(mainInbox)
       IN \A i \in 0..(msg.count - 1) :
            buf'[msg.startIndex + i] =
              msg.batchPositions[i + 1]
                + getPlanetPosition("earth", currentTime) * scaleFactor
                + sceneOffset]_vars

\* With the focus on a body other than Earth and the Sun, every chunk of
\* the batch requested by setCameraTarget has been written: the slot of a
\* chunk that does not start at 0 holds a position around Earth, away from
\* the focus body at the origin.
C23_Witness ==
  /\ cameraTargetObject \notin {"earth", "sun", "moon"}
  /\ sceneOffset # 0
  /\ workerInbox = <<>> /\ mainInbox = <<>>
  /\ satellitesCount = MAX_SATELLITES
  /\ BATCH_SIZE < MAX_SATELLITES
  /\ buf[0] = sgp4(0, currentTime)
               + getPlanetPosition("earth", currentTime) * scaleFactor
               + sceneOffset
  /\ buf[MAX_SATELLITES - 1] =
       getPlanetPosition("earth", currentTime) * scaleFactor + sceneOffset
  /\ buf[0] # sgp4(0, currentTime)

\* ----------------------------------------------------------------- C24
\* C24: initTLEs leaves min(parsed, MAX_SATELLITES) records in the list,
\* the first MAX_SATELLITES when more were parsed; the list never grows
\* afterwards; in every state
\* validCount <= number of records <= MAX_SATELLITES.
C24_LoadTimeCapacity ==
  /\ [](satellitesCount <= tleData /\ tleData <= MAX_SATELLITES)
  /\ [][/\ \A parsed \in 0..MaxParsed :
             InitTLEs(parsed) =>
               /\ parsed > MAX_SATELLITES => tleData' = MAX_SATELLITES
               /\ parsed <= MAX_SATELLITES => tleData' = parsed
        /\ loaded => tleData' <= tleData]_vars

\* The list is full after the load and every chunk of the first batch has
\* been written: validCount has reached the capacity.
C24_Witness ==
  /\ loaded
  /\ tleData = MAX_SATELLITES
  /\ satellitesCount = MAX_SATELLITES
  /\ MaxParsed > MAX_SATELLITES

\* ----------------------------------------------------------------- C25
\* worker.onmessage is handed a POSITIONS_UPDATE chunk that fits the
\* buffer, from the main inbox or directly.
AcceptedChunkHandled ==
  \/ AcceptedChunkStep
  \/ /\ events' = events + 1
     /\ hist' # <<>>
     /\ ~Oversized(hist'[Len(hist')].msg)

\* C25: a step that changes a slot of the position buffer or validCount is
\* the handling of an accepted POSITIONS_UPDATE chunk; time steps, real-time
\* ticks, hover, select, clear, search, trajectory replies, dropped chunks
\* and setCameraTarget leave every slot and validCount as they are.
C25_BufferOwnership ==
  [][(buf' # buf \/ satellitesCount' # satellitesCount)
       => AcceptedChunkHandled]_vars

\* The buffer is full, and since then a record has been hovered and
\* selected and its trajectory reply handled.
C25_Witness ==
  /\ satellitesCount = MAX_SATELLITES
  /\ buf[0] # 0
  /\ events = MaxEvents
  /\ selectedIndex # -1
  /\ selectedTrajectory # <<>>

\* ----------------------------------------------------------------- C26
\* C26: a step that changes sceneOffset is a call of setCameraTarget; time
\* steps, real-time ticks, position and trajectory replies, hover, select
\* and clear leave sceneOffset as it is.
C26_SceneOffsetOwnership ==
  [][sceneOffset' # sceneOffset
       => \E targetName \in targetObjects : setCameraTarget(targetName)]_vars

\* The focus was moved to a body away from the origin and the time was
\* stepped afterwards: sceneOffset is still the offset computed for the
\* earlier time, and chunks of a batch have been written since.
C26_Witness ==
  /\ sceneOffset # 0
  /\ sceneOffset # 0 - TargetAbsolutePosition(cameraTargetObject, currentTime)
  /\ events = MaxEvents
  /\ satellitesCount > 0
  /\ mainInbox = <<>> /\ workerInbox = <<>>

\* ----------------------------------------------------------------- C27
\* currentTime is assigned in this step: a forward or backward click, the
\* switch to real time, or a real-time tick.
TimeAdvance ==
  \/ \E direction \in {-1, 1} : StepTime(direction)
  \/ \E now \in Times : PlayClick(now) /\ isRealTime'
  \/ \E now \in Times : UpdateRealTime(now)

\* The requests the main thread posts to the worker in this step.
Sent == SubSeq(workerInbox', Len(workerInbox) + 1, Len(workerInbox'))

\* C27: a step that assigns currentTime while at least one record is loaded
\* posts one CALCULATE_POSITIONS request with the full record list and the
\* new currentTime; with no record loaded it posts nothing.
C27_TimeAdvanceDispatches ==
  [][TimeAdvance =>
       IF tleData > 0
       THEN /\ Len(Sent) = 1
            /\ Sent[1].type = "CALCULATE_POSITIONS"
            /\ Sent[1].n = tleData
            /\ Sent[1].time = currentTime'
       ELSE Sent = <<>>]_vars

\* The batch request of the load waits in the worker's queue, followed by
\* the request of a time step, for every record and for the new time.
C27_Witness ==
  /\ Len(workerInbox) = 2
  /\ workerInbox[1].type = "CALCULATE_POSITIONS"
  /\ workerInbox[2].type = "CALCULATE_POSITIONS"
  /\ workerInbox[2].time = currentTime
  /\ workerInbox[1].time # currentTime
  /\ workerInbox[2].n = tleData
  /\ tleData > BATCH_SIZE
  /\ events = 1

\* ----------------------------------------------------------------- C28
\* C28: solveKepler makes at most maxIterations passes through its loop and
\* then returns; what it returns is the estimate E it holds, also when the
\* last correction was above the tolerance; every call returns.
C28_SolverTerminates ==
  /\ [](kepler.i <= maxIterations)
  /\ [][(kepler.pc = "loop" /\ kepler'.pc = "done") =>
          /\ kepler'.E = kepler.E
          /\ kepler.i = maxIterations \/ Abs(kepler.delta) <= tolerance]_vars
  /\ [](kepler.pc = "loop" /\ kepler.i = maxIterations
          => ENABLED solveKeplerReturn /\ ~ENABLED solveKeplerIterate)
  /\ <>(kepler.pc = "done")

\* A call has returned after maxIterations passes with the last correction
\* still above the tolerance, far from a solution.
C28_Witness ==
  /\ kepler.pc = "done"
  /\ kepler.i = maxIterations
  /\ Abs(kepler.delta) > tolerance
  /\ Abs(KeplerResidual(kepler.E, kepler.e, kepler.M)) > One

\* ----------------------------------------------------------------- C29
\* 1e-6, the bound of the claim, is a hundred times the solver's tolerance.
ResidualBound == 100 * tolerance

\* C29: for e in [0, 0.99] and M in [0, 2 pi) the returned E satisfies
\* |E - e sin(E) - M| < 1e-6.
C29_ResidualBelowBound ==
  (/\ kepler.pc = "done"
   /\ kepler.e >= 0 /\ kepler.e <= (99 * One) \div 100
   /\ kepler.M >= 0 /\ kepler.M < TwoPi)
  => Abs(KeplerResidual(kepler.E, kepler.e, kepler.M)) < ResidualBound

\* ----------------------------------------------------------------- C30
\* C30: for a body with eccentricity 0 solveKepler returns E = M and the
\* distance r of getPlanetPosition is the semi-major axis a, for the mean
\* anomaly of every time.
C30_CircularOrbit ==
  (kepler.pc = "done" /\ kepler.e = 0)
  => /\ kepler.E = kepler.M
     /\ HeliocentricDistance(kepler.a, kepler.e, kepler.E) = kepler.a

\* The call for a circular orbit at a mean anomaly where cos is not 0 has
\* returned after its one pass.
C30_Witness ==
  /\ kepler.pc = "done"
  /\ kepler.e = 0
  /\ kepler.i = 1
  /\ kepler.a = 5203
  /\ kepler.M = 2000
  /\ cos(kepler.E) # 0

\* ----------------------------------------------------------------- C31
\* C31: the mean anomaly getPlanetPosition uses is below 2 pi in magnitude
\* at every time, before the epoch too, and the position at t + 2 pi / n is
\* the position at t.
C31_Periodicity ==
  kepler.pc = "returned" =>
    /\ Abs(kepler.M) < TwoPi
    /\ kepler.before # <<>> => kepler.pos = kepler.before

\* An eccentric body whose mean anomaly was negative at the first call
\* (before the epoch) and is positive a period later, with both positions
\* computed.
C31_Witness ==
  /\ kepler.pc = "returned"
  /\ kepler.before # <<>>
  /\ kepler.e > 0
  /\ kepler.M > 0
  /\ kepler.M0 + kepler.n * (kepler.dt - TwoPi \div kepler.n) < 0
  /\ kepler.dt - TwoPi \div kepler.n < 0
  /\ kepler.pos[2] # 0

\* ----------------------------------------------------------------- C32
\* C32: the absolute position updatePositions gives the Moon (its display
\* position less sceneOffset) is (Earth's heliocentric position in AU +
\* the Moon's geocentric position in AU) * scaleFactor, the value
\* setCameraTarget('moon') computes for the same currentTime.
C32_MoonConsistent ==
  /\ bodyPos["moon"] - sceneOffset =
       (getPlanetPosition("earth", currentTime) + getMoonPosition(currentTime))
         * scaleFactor
  /\ bodyPos["moon"] - sceneOffset =
       TargetAbsolutePosition("moon", currentTime)

\* ----------------------------------------------------------------- C33
\* C33: in every state each slot below validCount has been written by an
\* accepted chunk.
C33_NoHoles == \A i \in Slots : i < satellitesCount => i \in written

\* The first chunk of a batch for MAX_SATELLITES records has been written
\* and the chunk after it waits in the main inbox.
C33_Witness ==
  /\ tleData = MAX_SATELLITES
  /\ satellitesCount = BATCH_SIZE
  /\ written = 0..(BATCH_SIZE - 1)
  /\ mainInbox # <<>>
  /\ Head(mainInbox).type = "POSITIONS_UPDATE"
  /\ Head(mainInbox).startIndex = BATCH_SIZE

\* ----------------------------------------------------------------- C34
\* C34: a trajectory line in the scene for the selected slot was built from
\* a reply for the current selectedIndex, which is then a record; a line
\* for the highlighted slot was built from a reply for the current
\* highlightedIndex, which is then a record.
C34_TrajectoryMatchesSlot ==
  /\ selectedTrajectory # <<>> =>
       /\ selectedIndex # -1
       /\ selectedTrajectory[1].index = selectedIndex
  /\ currentTrajectory # <<>> =>
       /\ highlightedIndex # -1
       /\ currentTrajectory[1].index = highlightedIndex

\* Both slots show a line at once: one record is selected and its line
\* shown while another record is hovered and its line shown. Replies for
\* either record are complete.
C34_Witness ==
  /\ selectedTrajectory # <<>> /\ currentTrajectory # <<>>
  /\ sceneLines.selected = 1 /\ sceneLines.highlighted = 1
  /\ selectedIndex # highlightedIndex

\* ----------------------------------------------------------------- C35
\* The worker and the main thread's message loop keep running.
SpecLive == Spec /\ WF_vars(WorkerStep) /\ WF_vars(Deliver)

\* A trajectory request for the index waits at the worker, or the reply to
\* one waits at the main thread.
TrajectoryOutstanding(index) ==
  \/ \E k \in 1..Len(workerInbox) :
       /\ workerInbox[k].type = "CALCULATE_TRAJECTORY"
       /\ workerInbox[k].satelliteIndex = index
  \/ \E k \in 1..Len(mainInbox) :
       /\ mainInbox[k].type = "TRAJECTORY_DATA"
       /\ mainInbox[k].satelliteIndex = index

\* The selected slot shows a line with points for the index.
SelectedShown(index) ==
  /\ selectedTrajectory # <<>>
  /\ selectedTrajectory[1].index = index
  /\ selectedTrajectory[1].points # <<>>

\* C35: while a loaded record whose propagation succeeds is selected and
\* the selected slot shows no line, a trajectory request or reply for it is
\* outstanding; and the line for it is shown eventually unless the
\* selection changes.
C35_SelectedEventuallyShown ==
  /\ [](\A i \in Slots :
          (selectedIndex = i /\ i < tleData /\ TleKind(i) = "ok"
             /\ selectedTrajectory = <<>>)
          => TrajectoryOutstanding(i))
  /\ \A i \in Slots :
       (selectedIndex = i /\ i < tleData /\ TleKind(i) = "ok")
         ~> (SelectedShown(i) \/ selectedIndex # i)

\* setCameraTarget has cleared the line of the selected record and the new
\* request for it waits at the worker.
C35_Witness ==
  /\ selectedIndex # -1 /\ TleKind(selectedIndex) = "ok"
  /\ selectedTrajectory = <<>>
  /\ cameraTargetObject # "sun"
  /\ \E k \in 1..Len(workerInbox) :
       /\ workerInbox[k].type = "CALCULATE_TRAJECTORY"
       /\ workerInbox[k].satelliteIndex = selectedIndex

\* ----------------------------------------------------------------- C36
\* C36: an existing highlight or selection marker of an index below the
\* valid count stands at the display position of the buffer slot of that
\* index.
C36_MarkerFollows ==
  /\ (highlightedSatellite # <<>> /\ highlightedIndex # -1
        /\ highlightedIndex < satellitesCount)
       => highlightedSatellite[1] = buf[highlightedIndex]
  /\ (selectedSatellite # <<>> /\ selectedIndex # -1
        /\ selectedIndex < satellitesCount)
       => selectedSatellite[1] = buf[selectedIndex]

\* ----------------------------------------------------------------- C37
\* The messages a step appends to the worker's queue.
Issued == SubSeq(workerInbox', Len(workerInbox) + 1, Len(workerInbox'))

\* C37: a mouse move onto satellite i posts exactly one trajectory request
\* for i when i is neither the highlighted nor the selected index, and
\* posts nothing when i is the highlighted index or the selected index.
C37_HoverRequestRule ==
  [][\A i \in Slots :
       OnMouseMove(i) =>
         IF i # highlightedIndex /\ i # selectedIndex
         THEN /\ Len(Issued) = 1
              /\ Issued[1].type = "CALCULATE_TRAJECTORY"
              /\ Issued[1].satelliteIndex = i
         ELSE workerInbox' = workerInbox]_vars

\* The mouse is on a satellite that is not selected, next to a selected one,
\* and the request for it waits at the worker.
C37_Witness ==
  /\ highlightedIndex # -1 /\ selectedIndex # -1
  /\ highlightedIndex # selectedIndex
  /\ hist = <<>>
  /\ workerInbox # <<>>
  /\ workerInbox[Len(workerInbox)].type = "CALCULATE_TRAJECTORY"
  /\ workerInbox[Len(workerInbox)].satelliteIndex = highlightedIndex

\* ----------------------------------------------------------------- C38
\* The batch requests among the messages a step posts.
PositionsIssued == SelectSeq(Issued, LAMBDA m : m.type = "CALCULATE_POSITIONS")

\* C38: a manual time step with records loaded posts one batch request, for
\* the new time, and that is the only one the step causes: the frames of
\* update() that follow while the clock is paused post no batch request.
C38_OneBatchPerStep ==
  [][/\ \A d \in {-1, 1} :
          (StepTime(d) /\ tleData > 0) =>
            /\ Len(PositionsIssued) = 1
            /\ PositionsIssued[1].time = currentTime'
     /\ (UpdatePaused /\ tleData > 0) => PositionsIssued = <<>>]_vars

\* ----------------------------------------------------------------- C39
\* C39: the reply to a trajectory request with sample count `points` that
\* did not throw holds at most `points` samples; they start at the sample
\* of the request's start time and follow one time step apart, and a record
\* without positions contributes no sample.
C39_TrajectorySampleCount ==
  [][(WorkerTrajectoryStep /\ TrajectoryReply(Posted[1])) =>
       LET req     == Head(workerInbox)
           samples == Posted[1].trajectoryPoints
       IN /\ Len(samples) <= req.points
          /\ TleKind(req.satelliteIndex) = "nopos" => samples = <<>>
          /\ \A k \in 1..Len(samples) :
               samples[k] = sgp4(req.satelliteIndex, req.time) + (k - 1)]_vars

====
